---- MODULE Spec2Model ----
(***************************************************************************)
(* Medical Lab Commander (src/app.py): the number cleaner, the number      *)
(* scanner, the keyword matcher, the value picker, the strict parser and   *)
(* the START run over the uploaded files.                                  *)
(*                                                                         *)
(* A string is a sequence of characters.  A character is a token: an ASCII *)
(* character stands for itself, any other character is written by name     *)
(* ("LAMDA" is the Greek capital lamda, "alpha_tonos" the small alpha with *)
(* tonos, "EN_DASH" the en dash, "DQUOTE" the double quote, "TAB" the tab). *)
(***************************************************************************)
EXTENDS Integers, Sequences, FiniteSets, TLC

(***************************************************************************)
(* Characters                                                              *)
(***************************************************************************)
Digits == {"0", "1", "2", "3", "4", "5", "6", "7", "8", "9"}

LatinUpper ==
    {"A", "B", "C", "D", "E", "F", "G", "H", "I", "J", "K", "L", "M",
     "N", "O", "P", "Q", "R", "S", "T", "U", "V", "W", "X", "Y", "Z"}

\* The range U+0391..U+03A9 of the pattern's class: the unaccented capitals.
GreekUpper ==
    {"ALPHA", "BETA", "GAMMA", "DELTA", "EPSILON", "ZETA", "ETA", "THETA",
     "IOTA", "KAPPA", "LAMDA", "MU", "NU", "XI", "OMICRON", "PI", "RHO",
     "SIGMA", "TAU", "UPSILON", "PHI", "CHI", "PSI", "OMEGA"}

Whitespace == {" ", "TAB"}

\* str.upper(), character by character (Latin and Greek letters).
UpperTable ==
    ("a" :> "A") @@ ("alpha" :> "ALPHA") @@ ("alpha_tonos" :> "ALPHA_TONOS")
    @@ ("b" :> "B") @@ ("beta" :> "BETA") @@ ("c" :> "C") @@ ("chi" :> "CHI")
    @@ ("d" :> "D") @@ ("delta" :> "DELTA") @@ ("e" :> "E")
    @@ ("epsilon" :> "EPSILON") @@ ("epsilon_tonos" :> "EPSILON_TONOS")
    @@ ("eta" :> "ETA") @@ ("eta_tonos" :> "ETA_TONOS") @@ ("f" :> "F")
    @@ ("final_sigma" :> "SIGMA") @@ ("g" :> "G") @@ ("gamma" :> "GAMMA")
    @@ ("h" :> "H") @@ ("i" :> "I") @@ ("iota" :> "IOTA")
    @@ ("iota_dialytika" :> "IOTA_DIALYTIKA") @@ ("iota_tonos" :> "IOTA_TONOS")
    @@ ("j" :> "J") @@ ("k" :> "K") @@ ("kappa" :> "KAPPA") @@ ("l" :> "L")
    @@ ("lamda" :> "LAMDA") @@ ("m" :> "M") @@ ("mu" :> "MU") @@ ("n" :> "N")
    @@ ("nu" :> "NU") @@ ("o" :> "O") @@ ("omega" :> "OMEGA")
    @@ ("omega_tonos" :> "OMEGA_TONOS") @@ ("omicron" :> "OMICRON")
    @@ ("omicron_tonos" :> "OMICRON_TONOS") @@ ("p" :> "P") @@ ("phi" :> "PHI")
    @@ ("pi" :> "PI") @@ ("psi" :> "PSI") @@ ("q" :> "Q") @@ ("r" :> "R")
    @@ ("rho" :> "RHO") @@ ("s" :> "S") @@ ("sigma" :> "SIGMA") @@ ("t" :> "T")
    @@ ("tau" :> "TAU") @@ ("theta" :> "THETA") @@ ("u" :> "U")
    @@ ("upsilon" :> "UPSILON") @@ ("upsilon_dialytika" :> "UPSILON_DIALYTIKA")
    @@ ("upsilon_tonos" :> "UPSILON_TONOS") @@ ("v" :> "V") @@ ("w" :> "W")
    @@ ("x" :> "X") @@ ("xi" :> "XI") @@ ("y" :> "Y") @@ ("z" :> "Z")
    @@ ("zeta" :> "ZETA")

UpperChar(c) == IF c \in DOMAIN UpperTable THEN UpperTable[c] ELSE c

upper(s) == [i \in 1..Len(s) |-> UpperChar(s[i])]

(***************************************************************************)
(* String helpers                                                          *)
(***************************************************************************)
\* str.strip(): leading and trailing whitespace removed.
strip(s) ==
    LET inked == {i \in 1..Len(s) : s[i] \notin Whitespace}
        Min(S) == CHOOSE x \in S : \A y \in S : x <= y
        Max(S) == CHOOSE x \in S : \A y \in S : x >= y
    IN  IF inked = {} THEN <<>> ELSE SubSeq(s, Min(inked), Max(inked))

\* s.replace(c, ""), for every character c of the set.
Remove(s, chars) == SelectSeq(s, LAMBDA c : c \notin chars)

\* s.replace(c, to), for every character c of the set.
Replace(s, chars, to) == [i \in 1..Len(s) |-> IF s[i] \in chars THEN to ELSE s[i]]

\* sub in s
Contains(s, sub) ==
    \E p \in 0..(Len(s) - Len(sub)) : SubSeq(s, p + 1, p + Len(sub)) = sub

\* s.rfind(c): the last index of c, counted from 0, or -1.
rfind(s, c) ==
    LET at == {i \in 1..Len(s) : s[i] = c}
    IN  IF at = {} THEN -1 ELSE (CHOOSE x \in at : \A y \in at : x >= y) - 1

\* s.count(c)
count(s, c) == Cardinality({i \in 1..Len(s) : s[i] = c})

normalize_line(s) ==
    LET t == strip(s)
        keep == {i \in 1..Len(t) : t[i] \notin Whitespace \/ t[i - 1] \notin Whitespace}
        RECURSIVE Collapse(_)
        Collapse(i) ==
            IF i > Len(t) THEN <<>>
            ELSE IF i \in keep
                 THEN <<IF t[i] \in Whitespace THEN " " ELSE t[i]>> \o Collapse(i + 1)
                 ELSE Collapse(i + 1)
    IN  Collapse(1)

(***************************************************************************)
(* Numbers: a float is the exact decimal m / 10^e it is written as, kept   *)
(* in lowest terms (e = 0, or m not a multiple of 10), so that equal       *)
(* values are equal records.  None is the record with ok = FALSE.          *)
(***************************************************************************)
None == [ok |-> FALSE, m |-> 0, e |-> 0]

RECURSIVE Pow10(_)
Pow10(n) == IF n = 0 THEN 1 ELSE 10 * Pow10(n - 1)

RECURSIVE Num(_, _)
Num(m, e) ==
    IF e > 0 /\ m % 10 = 0 THEN Num(m \div 10, e - 1)
    ELSE [ok |-> TRUE, m |-> m, e |-> e]

Int2Num(n) == Num(n, 0)

\* a <= b and a < b on floats
Leq(a, b) == a.m * Pow10(b.e) <= b.m * Pow10(a.e)
Lt(a, b) == a.m * Pow10(b.e) < b.m * Pow10(a.e)

DigitVal(c) ==
    CASE c = "0" -> 0 [] c = "1" -> 1 [] c = "2" -> 2 [] c = "3" -> 3 [] c = "4" -> 4
      [] c = "5" -> 5 [] c = "6" -> 6 [] c = "7" -> 7 [] c = "8" -> 8 [] c = "9" -> 9

RECURSIVE IntOf(_)
IntOf(ds) ==
    IF ds = <<>> THEN 0
    ELSE 10 * IntOf(SubSeq(ds, 1, Len(ds) - 1)) + DigitVal(ds[Len(ds)])

\* float(s) on what clean_number hands it: digits, '.', ',' and '-' only.
\* A sign, digits with at most one '.', at least one digit; anything else
\* raises ValueError, which clean_number turns into None.
float(s) ==
    LET neg  == Len(s) > 0 /\ s[1] = "-"
        body == IF neg THEN Tail(s) ELSE s
        dots == {i \in 1..Len(body) : body[i] = "."}
        digs == SelectSeq(body, LAMBDA c : c \in Digits)
        frac == IF dots = {} THEN 0 ELSE Len(body) - (CHOOSE i \in dots : TRUE)
    IN  IF /\ \A i \in 1..Len(body) : body[i] \in Digits \cup {"."}
           /\ Cardinality(dots) <= 1
           /\ digs # <<>>
        THEN Num((IF neg THEN -1 ELSE 1) * IntOf(digs), frac)
        ELSE None

(***************************************************************************)
(* clean_number                                                            *)
(***************************************************************************)
Junk == {"DQUOTE", "'", ":", "*", "$", "LE_SIGN", "GE_SIGN", "<", ">"}

\* A cleaner that knows the US convention only: every comma is a thousands
\* separator.
SeparatorsUsOnly(s) == Remove(s, {","})

\* lines 88-102: the decimal separator
Separators(s) ==
    IF Contains(s, <<",">>) /\ Contains(s, <<".">>)
    THEN IF rfind(s, ",") > rfind(s, ".")
         THEN Replace(Remove(s, {"."}), {","}, ".")
         ELSE Remove(s, {","})
    ELSE IF Contains(s, <<",">>) /\ ~Contains(s, <<".">>)
         THEN Replace(Remove(s, {"."}), {","}, ".")
         ELSE s

\* lines 107-110: the minus sign
MinusUsage(s) ==
    LET s1 == IF count(s, "-") > 1 THEN Remove(s, {"-"}) ELSE s
    IN  IF Contains(s1, <<"-">>) /\ ~(Len(s1) > 0 /\ s1[1] = "-")
        THEN Remove(s1, {"-"})
        ELSE s1

clean_number(val_str) ==
    IF val_str = <<>> THEN None
    ELSE LET s1 == Remove(strip(val_str), Junk)
             s2 == Replace(s1, {"O", "o"}, "0")
             s3 == Replace(s2, {"EN_DASH", "MINUS_SIGN"}, "-")
             s4 == SelectSeq(s3, LAMBDA c : c \in Digits \cup {",", ".", "-"})
             s5 == strip(Separators(s4))
         IN  float(MinusUsage(s5))

(***************************************************************************)
(* find_all_numbers                                                        *)
(***************************************************************************)
IsDigitAt(s, p) == p >= 1 /\ p <= Len(s) /\ s[p] \in Digits
IsSepAt(s, p) == p >= 1 /\ p <= Len(s) /\ s[p] \in {".", ","}

\* \d+ from p (a digit): the index after the last digit
RECURSIVE DigitsEnd(_, _)
DigitsEnd(s, p) == IF IsDigitAt(s, p) THEN DigitsEnd(s, p + 1) ELSE p

\* (?:[.,]\d{3})* from p, greedy: the index after the last group
RECURSIVE GroupsEnd(_, _)
GroupsEnd(s, p) ==
    IF IsSepAt(s, p) /\ IsDigitAt(s, p + 1) /\ IsDigitAt(s, p + 2) /\ IsDigitAt(s, p + 3)
    THEN GroupsEnd(s, p + 4)
    ELSE p

\* (?:[.,]\d+)? from p, greedy
FractionEnd(s, p) ==
    IF IsSepAt(s, p) /\ IsDigitAt(s, p + 1) THEN DigitsEnd(s, p + 1) ELSE p

\* [-]? from p, greedy, given that a digit must follow
SignEnd(s, p) == IF p <= Len(s) /\ s[p] = "-" /\ IsDigitAt(s, p + 1) THEN p + 1 ELSE p

\* First alternative, [-]?\d{1,3}(?:[.,]\d{3})*(?:[.,]\d+)? matched at p:
\* the index after the match, or 0 when it does not match at p.
MatchGrouped(s, p) ==
    LET q0 == SignEnd(s, p)
        q1 == IF IsDigitAt(s, q0 + 2) /\ IsDigitAt(s, q0 + 1) THEN q0 + 3
              ELSE IF IsDigitAt(s, q0 + 1) THEN q0 + 2 ELSE q0 + 1
    IN  IF ~IsDigitAt(s, q0) THEN 0 ELSE FractionEnd(s, GroupsEnd(s, q1))

\* Second alternative, [-]?\d+(?:[.,]\d+)? matched at p
MatchPlain(s, p) ==
    LET q0 == SignEnd(s, p)
    IN  IF ~IsDigitAt(s, q0) THEN 0 ELSE FractionEnd(s, DigitsEnd(s, q0))

\* The alternation: the first alternative that matches at p wins.
MatchNumber(s, p) == IF MatchGrouped(s, p) # 0 THEN MatchGrouped(s, p) ELSE MatchPlain(s, p)

\* re.findall: leftmost matches, left to right, without overlap
RECURSIVE FindAll(_, _)
FindAll(s, p) ==
    IF p > Len(s) THEN <<>>
    ELSE LET q == MatchNumber(s, p)
         IN  IF q = 0 THEN FindAll(s, p + 1)
             ELSE <<SubSeq(s, p, q - 1)>> \o FindAll(s, q)

find_all_numbers(s) ==
    IF s = <<>> THEN <<>>
    ELSE LET s_clean == Replace(s, {"DQUOTE", "'", ":"}, " ")
             candidates == FindAll(s_clean, 1)
             cleaned == [k \in 1..Len(candidates) |-> clean_number(candidates[k])]
         IN  SelectSeq(cleaned, LAMBDA v : v.ok)

(***************************************************************************)
(* Metrics DB (ALL_METRICS_DB): metric name -> keywords, in dict order     *)
(***************************************************************************)
MetricItem(name, keywords) == [name |-> name, keywords |-> keywords]

ALL_METRICS_DB ==
    << MetricItem(<<"R", "B", "C", " ", "(", "EPSILON", "rho", "upsilon", "theta", "rho", "alpha_tonos", ")">>, <<<<"R", "B", "C">>, <<"EPSILON", "rho", "upsilon", "theta", "rho", "alpha_tonos">>>>),
       MetricItem(<<"H", "G", "B", " ", "(", "ALPHA", "iota", "mu", "omicron", "sigma", "phi", "alpha", "iota", "rho", "iota_tonos", "nu", "eta", ")">>, <<<<"H", "G", "B">>, <<"ALPHA", "iota", "mu", "omicron", "sigma", "phi", "alpha", "iota", "rho", "iota_tonos", "nu", "eta">>>>),
       MetricItem(<<"H", "C", "T", " ", "(", "ALPHA", "iota", "mu", "alpha", "tau", "omicron", "kappa", "rho", "iota_tonos", "tau", "eta", "final_sigma", ")">>, <<<<"H", "C", "T">>, <<"ALPHA", "iota", "mu", "alpha", "tau", "omicron", "kappa", "rho", "iota_tonos", "tau", "eta", "final_sigma">>>>),
       MetricItem(<<"P", "L", "T", " ", "(", "ALPHA", "iota", "mu", "omicron", "pi", "epsilon", "tau", "alpha_tonos", "lamda", "iota", "alpha", ")">>, <<<<"P", "L", "T">>, <<"ALPHA", "iota", "mu", "omicron", "pi", "epsilon", "tau", "alpha_tonos", "lamda", "iota", "alpha">>, <<"P", "l", "a", "t", "e", "l", "e", "t", "s">>>>),
       MetricItem(<<"W", "B", "C", " ", "(", "LAMDA", "epsilon", "upsilon", "kappa", "alpha_tonos", ")">>, <<<<"W", "B", "C">>, <<"LAMDA", "epsilon", "upsilon", "kappa", "alpha_tonos">>>>),
       MetricItem(<<"M", "C", "V">>, <<<<"M", "C", "V">>>>),
       MetricItem(<<"M", "C", "H">>, <<<<"M", "C", "H">>>>),
       MetricItem(<<"M", "C", "H", "C">>, <<<<"M", "C", "H", "C">>>>),
       MetricItem(<<"R", "D", "W">>, <<<<"R", "D", "W">>>>),
       MetricItem(<<"M", "P", "V">>, <<<<"M", "P", "V">>>>),
       MetricItem(<<"P", "C", "T">>, <<<<"P", "C", "T">>>>),
       MetricItem(<<"P", "D", "W">>, <<<<"P", "D", "W">>>>),
       MetricItem(<<"N", "E", "U", "T", " ", "(", "OMICRON", "upsilon", "delta", "epsilon", "tau", "epsilon", "rho", "omicron_tonos", "phi", "iota", "lamda", "alpha", ")">>, <<<<"N", "E", "U", "T">>, <<"OMICRON", "upsilon", "delta", "epsilon", "tau", "epsilon", "rho", "omicron_tonos", "phi", "iota", "lamda", "alpha">>>>),
       MetricItem(<<"L", "Y", "M", "P", "H", " ", "(", "LAMDA", "epsilon", "mu", "phi", "omicron", "kappa", "upsilon_tonos", "tau", "tau", "alpha", "rho", "alpha", ")">>, <<<<"L", "Y", "M", "P", "H">>, <<"LAMDA", "epsilon", "mu", "phi", "omicron", "kappa", "upsilon_tonos", "tau", "tau", "alpha", "rho", "alpha">>>>),
       MetricItem(<<"M", "O", "N", "O", " ", "(", "MU", "omicron", "nu", "omicron", "pi", "upsilon_tonos", "rho", "eta", "nu", "alpha", ")">>, <<<<"M", "O", "N", "O">>, <<"MU", "omicron", "nu", "omicron", "pi", "upsilon_tonos", "rho", "eta", "nu", "alpha">>>>),
       MetricItem(<<"E", "O", "S", " ", "(", "ETA", "omega", "sigma", "iota", "nu", "omicron_tonos", "phi", "iota", "lamda", "alpha", ")">>, <<<<"E", "O", "S">>, <<"ETA", "omega", "sigma", "iota", "nu", "omicron_tonos", "phi", "iota", "lamda", "alpha">>>>),
       MetricItem(<<"B", "A", "S", "O", " ", "(", "BETA", "alpha", "sigma", "epsilon_tonos", "omicron", "phi", "iota", "lamda", "alpha", ")">>, <<<<"B", "A", "S", "O">>, <<"BETA", "alpha", "sigma", "epsilon_tonos", "omicron", "phi", "iota", "lamda", "alpha">>>>),
       MetricItem(<<"SIGMA", "alpha_tonos", "kappa", "chi", "alpha", "rho", "omicron", " ", "(", "G", "L", "U", ")">>, <<<<"G", "L", "U">>, <<"G", "L", "U", "C", "O", "S", "E">>, <<"SIGMA", "alpha_tonos", "kappa", "chi", "alpha", "rho", "omicron">>>>),
       MetricItem(<<"OMICRON", "upsilon", "rho", "iota_tonos", "alpha">>, <<<<"U", "R", "E", "A">>, <<"OMICRON", "upsilon", "rho", "iota_tonos", "alpha">>>>),
       MetricItem(<<"KAPPA", "rho", "epsilon", "alpha", "tau", "iota", "nu", "iota_tonos", "nu", "eta">>, <<<<"C", "R", "E", "A", "T", "I", "N", "I", "N", "E">>, <<"C", "R", "E", "A">>, <<"C", "R">>, <<"KAPPA", "rho", "epsilon", "alpha", "tau", "iota", "nu", "iota_tonos", "nu", "eta">>>>),
       MetricItem(<<"CHI", "omicron", "lamda", "eta", "sigma", "tau", "epsilon", "rho", "iota_tonos", "nu", "eta">>, <<<<"C", "H", "O", "L", "E", "S", "T", "E", "R", "O", "L">>, <<"C", "H", "O", "L">>, <<"CHI", "omicron", "lamda", "eta", "sigma", "tau", "epsilon", "rho", "iota_tonos", "nu", "eta">>>>),
       MetricItem(<<"H", "D", "L">>, <<<<"H", "D", "L">>>>),
       MetricItem(<<"L", "D", "L">>, <<<<"L", "D", "L">>>>),
       MetricItem(<<"TAU", "rho", "iota", "gamma", "lamda", "upsilon", "kappa", "epsilon", "rho", "iota_tonos", "delta", "iota", "alpha">>, <<<<"T", "R", "I", "G", "L", "Y", "C", "E", "R", "I", "D", "E", "S">>, <<"T", "R", "I", "G">>, <<"TAU", "rho", "iota", "gamma", "lamda", "upsilon", "kappa", "epsilon", "rho", "iota_tonos", "delta", "iota", "alpha">>>>),
       MetricItem(<<"C", "R", "P">>, <<<<"C", "R", "P">>, <<"PI", "omicron", "sigma", "omicron", "tau", "iota", "kappa", "eta_tonos">>>>),
       MetricItem(<<"A", "S", "T", " ", "(", "S", "G", "O", "T", ")">>, <<<<"A", "S", "T">>, <<"S", "G", "O", "T">>>>),
       MetricItem(<<"A", "L", "T", " ", "(", "S", "G", "P", "T", ")">>, <<<<"A", "L", "T">>, <<"S", "G", "P", "T">>>>),
       MetricItem(<<"G", "G", "T">>, <<<<"G", "G", "T">>, <<"gamma", "-", "G", "T">>>>),
       MetricItem(<<"SIGMA", "iota_tonos", "delta", "eta", "rho", "omicron", "final_sigma", " ", "(", "F", "e", ")">>, <<<<"F", "E">>, <<"I", "R", "O", "N">>, <<"SIGMA", "iota_tonos", "delta", "eta", "rho", "omicron", "final_sigma">>>>),
       MetricItem(<<"PHI", "epsilon", "rho", "rho", "iota", "tau", "iota_tonos", "nu", "eta">>, <<<<"F", "E", "R", "R", "I", "T", "I", "N">>, <<"PHI", "epsilon", "rho", "rho", "iota", "tau", "iota_tonos", "nu", "eta">>>>),
       MetricItem(<<"B", "1", "2">>, <<<<"B", "1", "2">>>>),
       MetricItem(<<"PHI", "upsilon", "lamda", "lamda", "iota", "kappa", "omicron_tonos", " ", "OMICRON", "xi", "upsilon_tonos">>, <<<<"F", "O", "L", "I", "C">>, <<"PHI", "upsilon", "lamda", "lamda", "iota", "kappa", "omicron_tonos">>>>),
       MetricItem(<<"BETA", "iota", "tau", "alpha", "mu", "iota_tonos", "nu", "eta", " ", "D", "3">>, <<<<"V", "I", "T", " ", "D">>, <<"D", "3">>, <<"2", "5", "-", "O", "H">>>>),
       MetricItem(<<"T", "S", "H">>, <<<<"T", "S", "H">>>>),
       MetricItem(<<"P", "S", "A">>, <<<<"P", "S", "A">>>>) >>

all_keys == [k \in 1..Len(ALL_METRICS_DB) |-> ALL_METRICS_DB[k].name]

SeqToSet(q) == {q[k] : k \in 1..Len(q)}

\* active_metrics_map: the DB's items for the selected keys, in selection order
active_metrics_map(selected_metric_keys) ==
    [k \in 1..Len(selected_metric_keys) |->
        CHOOSE item \in SeqToSet(ALL_METRICS_DB) : item.name = selected_metric_keys[k]]

(***************************************************************************)
(* Keywords                                                                *)
(***************************************************************************)
build_all_keywords(selected_metrics) ==
    UNION {{strip(upper(item.keywords[j])) : j \in 1..Len(item.keywords)} :
              item \in SeqToSet(selected_metrics)}
    \ {<<>>}

\* The class of the pattern: A-Z, 0-9 and the Greek capitals Alpha to Omega
WordChars == LatinUpper \cup Digits \cup GreekUpper

\* kw found at offset p of the line with a non-class character, or the line's
\* end, on either side
BoundedAt(line_upper, kw, p) ==
    /\ SubSeq(line_upper, p + 1, p + Len(kw)) = kw
    /\ (p = 0 \/ line_upper[p] \notin WordChars)
    /\ (p + Len(kw) = Len(line_upper) \/ line_upper[p + Len(kw) + 1] \notin WordChars)

\* Plain containment, whatever surrounds the keyword
keyword_hit_substring(line_upper, kw) ==
    LET k == strip(upper(kw)) IN k # <<>> /\ Contains(line_upper, k)

keyword_hit(line_upper, kw) ==
    LET k == strip(upper(kw))
    IN  IF k = <<>> THEN FALSE
        ELSE IF " " \in SeqToSet(k) THEN Contains(line_upper, k)
        ELSE \E p \in 0..(Len(line_upper) - Len(k)) : BoundedAt(line_upper, k, p)

(***************************************************************************)
(* pick_best_value                                                         *)
(***************************************************************************)
\* [v for v in values if lo <= v <= hi]
InRange(values, lo, hi) == SelectSeq(values, LAMBDA v : Leq(lo, v) /\ Leq(v, hi))

FirstOrNone(vals) == IF vals = <<>> THEN None ELSE vals[1]

\* abs(v - round(v)) < 1e-6
NearInteger(v) ==
    LET r    == v.m % Pow10(v.e)
        dist == IF 2 * r <= Pow10(v.e) THEN r ELSE Pow10(v.e) - r
    IN  IF v.e <= 6 THEN dist = 0 ELSE dist < Pow10(v.e - 6)

IndexMetrics == {<<"M", "C", "V">>, <<"M", "C", "H">>, <<"M", "C", "H", "C">>, <<"R", "D", "W">>, <<"M", "P", "V">>, <<"P", "C", "T">>, <<"P", "D", "W">>}

\* A picker without plausibility ranges: the first candidate, whatever it is
pick_first_value(metric_name, values) ==
    FirstOrNone(SelectSeq(values, LAMBDA v : v.ok))

pick_best_value(metric_name, values0) ==
    LET m      == upper(metric_name)
        values == SelectSeq(values0, LAMBDA v : v.ok)
    IN  IF values = <<>> THEN None
        ELSE IF Contains(m, <<"W", "B", "C">>) \/ Contains(m, <<"LAMDA", "EPSILON", "UPSILON", "KAPPA">>)
        THEN FirstOrNone(InRange(values, Num(1, 1), Int2Num(30)))
        ELSE IF Contains(m, <<"R", "B", "C">>) \/ Contains(m, <<"EPSILON", "RHO", "UPSILON", "THETA">>)
        THEN FirstOrNone(InRange(values, Int2Num(1), Int2Num(8)))
        ELSE IF Contains(m, <<"H", "G", "B">>) \/ Contains(m, <<"ALPHA", "IOTA", "MU", "OMICRON", "SIGMA", "PHI">>)
        THEN FirstOrNone(InRange(values, Int2Num(5), Int2Num(25)))
        ELSE IF Contains(m, <<"H", "C", "T">>) \/ Contains(m, <<"ALPHA", "IOTA", "MU", "ALPHA", "TAU", "OMICRON", "KAPPA">>)
        THEN FirstOrNone(InRange(values, Int2Num(10), Int2Num(70)))
        ELSE IF Contains(m, <<"P", "L", "T">>) \/ Contains(m, <<"ALPHA", "IOTA", "MU", "OMICRON", "PI", "EPSILON", "TAU">>) \/ Contains(m, <<"P", "L", "A", "T", "E">>)
        THEN LET vals == InRange(values, Int2Num(10), Int2Num(2000))
                 ints == SelectSeq(vals, NearInteger)
             IN  IF ints # <<>> THEN ints[1] ELSE FirstOrNone(vals)
        ELSE IF m \in IndexMetrics
        THEN FirstOrNone(InRange(values, Num(1, 3), Int2Num(1000)))
        ELSE values[1]

(***************************************************************************)
(* parse_google_text_deep                                                  *)
(***************************************************************************)
\* range(1, 7): the offsets of the deep look
MaxOffset == 6

\* lines 261-262: the text's lines, normalized, the empty ones dropped.
\* full_text is held as the sequence of its lines (split on "\n").
TextLines(full_text) ==
    SelectSeq([k \in 1..Len(full_text) |-> normalize_line(full_text[k])],
              LAMBDA x : x # <<>>)

\* lines 267-268
CurrentKeywords(keywords) ==
    SelectSeq([k \in 1..Len(keywords) |-> strip(upper(keywords[k]))], LAMBDA k : k # <<>>)

\* line 277
LineHits(line, current_keywords) ==
    \E k \in SeqToSet(current_keywords) : keyword_hit(upper(line), k)

\* lines 291-295: STOP LOGIC
FoundOther(nxt, current_keywords, all_possible_keywords) ==
    \E known_k \in all_possible_keywords :
        /\ known_k \notin SeqToSet(current_keywords)
        /\ keyword_hit(upper(nxt), known_k)

\* A deep look that never stops at another metric's keyword
DeepLookNoStop(lines, i, offset, current_keywords, all_possible_keywords) ==
    LET last == IF i + MaxOffset <= Len(lines) THEN i + MaxOffset ELSE Len(lines)
        RECURSIVE Cat(_)
        Cat(j) == IF j > last THEN <<>> ELSE find_all_numbers(lines[j]) \o Cat(j + 1)
    IN  Cat(i + offset)

\* A deep look of 7 lines instead of 6
RECURSIVE DeepLookSeven(_, _, _, _, _)
DeepLookSeven(lines, i, offset, current_keywords, all_possible_keywords) ==
    IF offset > MaxOffset + 1 \/ i + offset > Len(lines) THEN <<>>
    ELSE IF FoundOther(lines[i + offset], current_keywords, all_possible_keywords) THEN <<>>
    ELSE find_all_numbers(lines[i + offset])
         \o DeepLookSeven(lines, i, offset + 1, current_keywords, all_possible_keywords)

\* lines 284-299: the candidates of the lines i+offset, i+offset+1, ...
RECURSIVE DeepLook(_, _, _, _, _)
DeepLook(lines, i, offset, current_keywords, all_possible_keywords) ==
    IF offset > MaxOffset \/ i + offset > Len(lines) THEN <<>>
    ELSE IF FoundOther(lines[i + offset], current_keywords, all_possible_keywords) THEN <<>>
    ELSE find_all_numbers(lines[i + offset])
         \o DeepLook(lines, i, offset + 1, current_keywords, all_possible_keywords)

\* A defence that lets years through
YearDefenceOff(metric_name, val) == val

\* lines 304-307: block years (unless B12 is involved)
YearDefence(metric_name, val) ==
    IF /\ val.ok
       /\ Lt(Int2Num(1990), val) /\ Lt(val, Int2Num(2030))
       /\ ~Contains(upper(metric_name), <<"B", "1", "2">>)
    THEN None
    ELSE val

\* A search that, when its first hit yields no value, goes on to the next
\* line that hits
ParseMetricRetry(lines, item, all_possible_keywords) ==
    LET current_keywords == CurrentKeywords(item.keywords)
        hits == {i \in 1..Len(lines) : LineHits(lines[i], current_keywords)}
        Cands(i) == find_all_numbers(lines[i])
                    \o DeepLook(lines, i, 1, current_keywords, all_possible_keywords)
        Val(i) == YearDefence(item.name, pick_best_value(item.name, Cands(i)))
        good == {i \in hits : Val(i).ok}
    IN  IF hits = {}
        THEN [Metric |-> item.name, at |-> 0, MatchedLine |-> <<>>,
              Candidates |-> <<>>, Picked |-> None]
        ELSE LET from == IF good = {} THEN hits ELSE good
                 i == CHOOSE x \in from : \A y \in from : x <= y
             IN  [Metric |-> item.name, at |-> i, MatchedLine |-> lines[i],
                  Candidates |-> Cands(i), Picked |-> Val(i)]

\* lines 270-315 and the debug row of lines 318-323: one metric's search.
\* at is the index of the first line that hits (0: no line does).
ParseMetric(lines, item, all_possible_keywords) ==
    LET current_keywords == CurrentKeywords(item.keywords)
        hits == {i \in 1..Len(lines) : LineHits(lines[i], current_keywords)}
    IN  IF hits = {}
        THEN [Metric |-> item.name, at |-> 0, MatchedLine |-> <<>>,
              Candidates |-> <<>>, Picked |-> None]
        ELSE LET i == CHOOSE x \in hits : \A y \in hits : x <= y
                 candidates == find_all_numbers(lines[i])
                               \o DeepLook(lines, i, 1, current_keywords, all_possible_keywords)
                 val == YearDefence(item.name, pick_best_value(item.name, candidates))
             IN  [Metric |-> item.name, at |-> i, MatchedLine |-> lines[i],
                  Candidates |-> candidates, Picked |-> val]

\* A result that keeps a key for every selected metric, found or not
ResultsDense(rows) ==
    [name \in {rows[k].Metric : k \in 1..Len(rows)} |->
        rows[CHOOSE k \in 1..Len(rows) : rows[k].Metric = name].Picked]

\* lines 313-314: results[metric_name] = found_value, only when it is not None
Results(rows) ==
    LET found == {k \in 1..Len(rows) : rows[k].Picked.ok}
    IN  [name \in {rows[k].Metric : k \in found} |->
            rows[CHOOSE k \in found : rows[k].Metric = name].Picked]

\* The pair (results, debug rows) the function returns with debug=True
parse_google_text_deep(full_text, selected_metrics) ==
    LET lines == TextLines(full_text)
        all_possible_keywords == build_all_keywords(selected_metrics)
        rows == [k \in 1..Len(selected_metrics) |->
                    ParseMetric(lines, selected_metrics[k], all_possible_keywords)]
    IN  [results |-> Results(rows), debug_rows |-> rows]

(***************************************************************************)
(* extract_date_from_text_or_filename                                      *)
(***************************************************************************)
NaT == [nat |-> TRUE, key |-> 0]

\* pd.to_datetime(dd/mm/yyyy, dayfirst=True, errors='coerce') on a day-first
\* date with a four-digit year: a Timestamp, held as the number yyyymmdd;
\* NaT when the day or the month is out of range.  (Two- and three-digit
\* years are left to pandas: the reports and file names used here have none.)
to_datetime(dd, mm, yyyy) ==
    IF Len(yyyy) = 4 /\ IntOf(mm) \in 1..12 /\ IntOf(dd) \in 1..31
    THEN [nat |-> FALSE, key |-> 10000 * IntOf(yyyy) + 100 * IntOf(mm) + IntOf(dd)]
    ELSE NaT

\* \d{1,2}/ at p: the number of digits taken, 0 when it does not match
DayLen(s, p) ==
    IF IsDigitAt(s, p) /\ IsDigitAt(s, p + 1) /\ p + 2 <= Len(s) /\ s[p + 2] = "/" THEN 2
    ELSE IF IsDigitAt(s, p) /\ p + 1 <= Len(s) /\ s[p + 1] = "/" THEN 1
    ELSE 0

\* (\d{1,2}/\d{1,2}/\d{2,4}) matched at p of a line
DateAt(s, p) ==
    LET n1 == DayLen(s, p)
        p2 == p + n1 + 1
        n2 == DayLen(s, p2)
        p3 == p2 + n2 + 1
        e3 == DigitsEnd(s, p3)
        n3 == IF e3 - p3 > 4 THEN 4 ELSE e3 - p3
    IN  IF n1 > 0 /\ n2 > 0 /\ n3 >= 2
        THEN <<SubSeq(s, p, p + n1 - 1), SubSeq(s, p2, p2 + n2 - 1), SubSeq(s, p3, p3 + n3 - 1)>>
        ELSE <<>>

\* re.search of the date pattern in the text: the first line with a match,
\* its leftmost match
DateSearch(full_text) ==
    LET Matches(l) == {p \in 1..Len(full_text[l]) : DateAt(full_text[l], p) # <<>>}
        with == {l \in 1..Len(full_text) : Matches(l) # {}}
    IN  IF with = {} THEN <<>>
        ELSE LET l == CHOOSE x \in with : \A y \in with : x <= y
                 p == CHOOSE x \in Matches(l) : \A y \in Matches(l) : x <= y
             IN  DateAt(full_text[l], p)

\* re.search(r'(\d{6})', filename): the leftmost six digits in a row
SixDigits(filename) ==
    LET at == {p \in 1..Len(filename) : \A d \in 0..5 : IsDigitAt(filename, p + d)}
    IN  IF at = {} THEN <<>>
        ELSE LET p == CHOOSE x \in at : \A y \in at : x <= y
             IN  SubSeq(filename, p, p + 5)

extract_date_from_text_or_filename(full_text, filename) ==
    LET date_match == DateSearch(full_text)
        d_str == SixDigits(filename)
    IN  IF date_match # <<>>
        THEN to_datetime(date_match[1], date_match[2], date_match[3])
        ELSE IF d_str # <<>>
        THEN to_datetime(SubSeq(d_str, 5, 6), SubSeq(d_str, 3, 4), <<"2", "0">> \o SubSeq(d_str, 1, 2))
        ELSE NaT

(***************************************************************************)
(* The rows of a START run                                                 *)
(***************************************************************************)
\* default_choices, all of them keys of the DB
safe_defaults ==
    <<<<"P", "L", "T", " ", "(", "ALPHA", "iota", "mu", "omicron", "pi", "epsilon", "tau", "alpha_tonos", "lamda", "iota", "alpha", ")">>, <<"W", "B", "C", " ", "(", "LAMDA", "epsilon", "upsilon", "kappa", "alpha_tonos", ")">>, <<"R", "B", "C", " ", "(", "EPSILON", "rho", "upsilon", "theta", "rho", "alpha_tonos", ")">>, <<"H", "G", "B", " ", "(", "ALPHA", "iota", "mu", "omicron", "sigma", "phi", "alpha", "iota", "rho", "iota_tonos", "nu", "eta", ")">>,
      <<"SIGMA", "alpha_tonos", "kappa", "chi", "alpha", "rho", "omicron", " ", "(", "G", "L", "U", ")">>>>

\* lines 603-605: the file's row: its results with its date and its name
\* (column "Arxeio", the file) set
StrictRow(file, selected_metric_keys) ==
    [metrics |-> parse_google_text_deep(file.full_text,
                                        active_metrics_map(selected_metric_keys)).results,
     Date |-> extract_date_from_text_or_filename(file.full_text, file.name),
     Arxeio |-> file.name]

\* lines 608-611: the file's debug table
DebugTable(file, selected_metric_keys) ==
    [rows |-> parse_google_text_deep(file.full_text,
                                     active_metrics_map(selected_metric_keys)).debug_rows,
     Date |-> extract_date_from_text_or_filename(file.full_text, file.name),
     Arxeio |-> file.name]

\* lines 614-616: the file's Auto frame.  Its Test/Value/Unit rows are not
\* held: nothing below reads them.
AutoFrame(file) ==
    [Date |-> extract_date_from_text_or_filename(file.full_text, file.name),
     Arxeio |-> file.name]

\* A run that keeps a row only for a file in which a metric was found
append_if_found(all_data, data) ==
    IF DOMAIN data.metrics = {} THEN all_data ELSE Append(all_data, data)

\* line 606: all_data.append(data)
append(all_data, data) == Append(all_data, data)

\* sort_values("Date"): ascending, NaT last, rows of equal date in their
\* order
RECURSIVE SortInsert(_, _)
SortInsert(sorted, row) ==
    IF sorted = <<>> THEN <<row>>
    ELSE LET before == ~row.Date.nat
                       /\ (sorted[1].Date.nat \/ row.Date.key < sorted[1].Date.key)
         IN  IF before THEN <<row>> \o sorted
             ELSE <<sorted[1]>> \o SortInsert(Tail(sorted), row)

RECURSIVE sort_values(_)
sort_values(rows) ==
    IF rows = <<>> THEN <<>>
    ELSE SortInsert(sort_values(SubSeq(rows, 1, Len(rows) - 1)), rows[Len(rows)])

(***************************************************************************)
(* State                                                                   *)
(***************************************************************************)
VARIABLES
    pc,             \* a function under study: "call" before it has run, "return"
                    \* after; the script: "ready" between runs, "loop" in a run
    arg,            \* the call: the function's name and its arguments
    ret,            \* what the call returned
    df_master,      \* st.session_state.df_master
    auto_master,    \* st.session_state.auto_master
    debug_master,   \* st.session_state.debug_master
    uploaded_files, \* the sidebar's uploaded files, in upload order
    mode,           \* the sidebar's extraction mode
    show_debug,     \* the sidebar's debug checkbox
    i,              \* the files the loop is done with
    all_data,       \* the run's Strict rows
    auto_data,      \* the run's Auto frames
    debug_tables,   \* the run's debug tables
    errors,         \* the st.error reports of the run: the files' names
    attempted,      \* the files whose bytes the run has asked for (file.getvalue())
    bar,            \* the progress bar: the files done
    runs            \* the START runs so far

sessionVars == <<df_master, auto_master, debug_master>>

runVars ==
    <<df_master, auto_master, debug_master, uploaded_files, mode, show_debug, i,
      all_data, auto_data, debug_tables, errors, attempted, bar, runs>>

vars == <<pc, arg, ret, runVars>>

\* A session table: None, or a DataFrame's rows
NoTable == [is_none |-> TRUE, rows |-> <<>>]

DataFrame(rows) == [is_none |-> FALSE, rows |-> rows]

\* lines 531-536, and no run yet
RunIdle ==
    /\ df_master = NoTable
    /\ auto_master = NoTable
    /\ debug_master = NoTable
    /\ uploaded_files = <<>>
    /\ mode = "Strict metrics (DB)"
    /\ show_debug = FALSE
    /\ i = 0
    /\ all_data = <<>>
    /\ auto_data = <<>>
    /\ debug_tables = <<>>
    /\ errors = <<>>
    /\ attempted = <<>>
    /\ bar = 0
    /\ runs = 0

\* Longest string of the exhaustive input sets
MaxStrLen == 4

Strs(alphabet, n) == UNION {[1..k -> alphabet] : k \in 0..n}

NoRet == <<>>

(***************************************************************************)
(* clean_number on every short string and on the documented examples       *)
(***************************************************************************)
CleanAlphabet == {"1", "5", "0", ",", ".", "-", "O", " "}

CleanExamples ==
    {<<"1", ".", "2", "3", "4", ",", "5", "6">>, <<"1", ",", "2", "3", "4", ".", "5", "6">>, <<"1", "2", ",", "5">>, <<"1", "0", ",", "2", "5">>, <<"1", ".", "2", "3", "4", ".", "5", "6", "7", ",", "8">>, <<"1", ",", "2", "3", "4", ",", "5", "6", "7", ".", "8">>,
     <<"1", ",", "2", "3", "4", ",", "5", "6", "7">>, <<"1", ".", "2", "3", "4", ",", "5", ",", "6">>, <<"<", " ", "0", ",", "5">>, <<"EN_DASH", "2", ",", "5">>, <<"a", "b", "c">>, <<"1", "2", ".", "5", " ", "m", "g", "/", "d", "L">>}

CleanInputs == Strs(CleanAlphabet, MaxStrLen) \cup CleanExamples

InitClean ==
    /\ pc = "call"
    /\ arg \in {[fn |-> "clean_number", val_str |-> s] : s \in CleanInputs}
    /\ ret = NoRet
    /\ RunIdle

CallCleanNumber ==
    /\ pc = "call"
    /\ arg.fn = "clean_number"
    /\ ret' = clean_number(arg.val_str)
    /\ pc' = "return"
    /\ UNCHANGED <<arg, runVars>>

SpecClean == InitClean /\ [][CallCleanNumber]_vars

\* What the claim says of a string: its digits and separators, its sign.
KeptChars(val_str) ==
    SelectSeq(Replace(Replace(val_str, {"O", "o"}, "0"), {"EN_DASH", "MINUS_SIGN"}, "-"),
              LAMBDA c : c \in Digits \cup {",", ".", "-"})

\* The value of digits-and-separators d read with its rightmost separator as
\* the decimal point and every other separator of the other kind dropped;
\* None when the decimal separator occurs twice or there is no digit.
ReadWithRightmostDecimal(d, negative) ==
    LET seps   == {n \in 1..Len(d) : d[n] \in {",", "."}}
        last   == CHOOSE n \in seps : \A j \in seps : j <= n
        digits == SelectSeq(d, LAMBDA c : c \in Digits)
        after  == Cardinality({n \in 1..Len(d) : n > last /\ d[n] \in Digits})
    IN  IF count(d, d[last]) = 1 /\ digits # <<>>
        THEN Num((IF negative THEN -1 ELSE 1) * IntOf(digits), after)
        ELSE None

CleanReturned(s) == pc = "return" /\ arg.fn = "clean_number" /\ arg.val_str = s

\* C6: clean_number reads the rightmost of ',' and '.' as the decimal
\* separator and drops the other as a thousands separator when both occur,
\* reads a lone ',' as the decimal separator, and returns None for a string
\* that does not reduce to a number.  (The sign is read where the string
\* has no '-' or a single leading one.)
C6_CleanNumberSeparators ==
    (pc = "return" /\ arg.fn = "clean_number") =>
        LET k        == KeptChars(arg.val_str)
            d        == Remove(k, {"-"})
            negative == count(k, "-") = 1 /\ k[1] = "-"
            digits   == SelectSeq(d, LAMBDA c : c \in Digits)
            signed   == count(k, "-") = 0 \/ negative
        IN  /\ (signed /\ Contains(d, <<",">>)) =>
                   ret = ReadWithRightmostDecimal(d, negative)
            /\ ~Contains(d, <<",">>) => (ret.ok <=> (count(d, ".") <= 1 /\ digits # <<>>))
            /\ arg.val_str = <<"1", ".", "2", "3", "4", ",", "5", "6">> => ret = Num(123456, 2)
            /\ arg.val_str = <<"1", ",", "2", "3", "4", ".", "5", "6">> => ret = Num(123456, 2)
            /\ arg.val_str = <<"1", "2", ",", "5">> => ret = Num(125, 1)
            /\ arg.val_str = <<"1", "0", ",", "2", "5">> => ret = Num(1025, 2)
            /\ arg.val_str = <<"a", "b", "c">> => ret = None

C6_Witness ==
    /\ CleanReturned(<<"1", ".", "2", "3", "4", ",", "5", "6">>) /\ ret = Num(123456, 2)

(***************************************************************************)
(* find_all_numbers on every short line and on the documented shapes       *)
(***************************************************************************)
FindAlphabet == {"1", "2", ",", ".", "-", " "}

FindExamples ==
    {<<"1", ".", "2", "3", "4", ",", "5", "6">>, <<"1", ",", "2", "3", "4", ".", "5", "6">>, <<"1", "2", "3", "4", ",", "5", "6">>, <<"1", "2", "3", "4", ".", "5", "6">>, <<"1", "2", "3", "4">>, <<"1", "2", " ", "1", ".", "2", "3", "4", ",", "5", "6", " ", "7">>,
     <<"W", "B", "C", " ", "1", "0", ",", "2", "5", " ", "6", "2", ".", "5">>, <<"P", "L", "T", ":", " ", "1", "5", "0", "0", "0", "0">>, <<"H", "b", " ", "1", "3", ".", "5", " ", "g", "/", "d", "L", " ", "(", "1", "2", "-", "1", "6", ")">>, <<"2", "0", "2", "4">>}

FindInputs == Strs(FindAlphabet, MaxStrLen) \cup FindExamples

InitFind ==
    /\ pc = "call"
    /\ arg \in {[fn |-> "find_all_numbers", s |-> s] : s \in FindInputs}
    /\ ret = NoRet
    /\ RunIdle

CallFindAllNumbers ==
    /\ pc = "call"
    /\ arg.fn = "find_all_numbers"
    /\ ret' = find_all_numbers(arg.s)
    /\ pc' = "return"
    /\ UNCHANGED <<arg, runVars>>

SpecFind == InitFind /\ [][CallFindAllNumbers]_vars

\* s.split(" ")
RECURSIVE SplitOnSpace(_)
SplitOnSpace(s) ==
    LET at == {n \in 1..Len(s) : s[n] = " "}
    IN  IF at = {} THEN <<s>>
        ELSE LET p == CHOOSE x \in at : \A y \in at : x <= y
             IN  <<SubSeq(s, 1, p - 1)>> \o SplitOnSpace(SubSeq(s, p + 1, Len(s)))

\* A numeric literal of one of the shapes 1234, 1234,56, 1234.56, 1.234,56
\* and 1,234.56
IsLiteral(t) ==
    LET seps   == {n \in 1..Len(t) : t[n] \in {",", "."}}
        last   == CHOOSE n \in seps : \A j \in seps : j <= n
        first  == CHOOSE n \in seps : \A j \in seps : j >= n
        groups == seps \ {last}
    IN  /\ t # <<>>
        /\ \A n \in 1..Len(t) : t[n] \in Digits \cup {",", "."}
        /\ t[1] \in Digits /\ t[Len(t)] \in Digits
        /\ \/ Cardinality(seps) <= 1
           \/ /\ first \in 2..4
              /\ \A j \in groups : t[j] # t[last] /\ j + 4 \in seps
              /\ \A j \in seps : \A d \in 1..3 : j + d \notin seps

LiteralValue(t) ==
    IF \A n \in 1..Len(t) : t[n] \in Digits
    THEN Int2Num(IntOf(t))
    ELSE ReadWithRightmostDecimal(t, FALSE)

\* C7: every numeric literal of a line (of the shapes 1.234,56, 1,234.56,
\* 1234,56, 1234.56 and 1234) is returned as one candidate with the
\* literal's value, left to right; a number of four or more digits without
\* thousands separator is one candidate.
C7_FindAllNumbersEveryLiteral ==
    (pc = "return" /\ arg.fn = "find_all_numbers") =>
        LET tokens == SplitOnSpace(arg.s)
        IN  (\A k \in 1..Len(tokens) : IsLiteral(tokens[k])) =>
                ret = [k \in 1..Len(tokens) |-> LiteralValue(tokens[k])]

(***************************************************************************)
(* keyword_hit, called as the parser calls it (line 275: on line.upper())  *)
(***************************************************************************)
KwAlphabet == {"C", "r", "P", " ", "1", "alpha_tonos"}

KwExamples ==
    {<<"C", "R", "P", " ", "5">>, <<"F", "E", "R", "R", "I", "T", "I", "N", " ", "3", "0">>, <<"F", "e", " ", "8", "0">>, <<"V", "I", "T", " ", "D", "3", " ", "2", "0">>, <<"KAPPA", "rho", "epsilon", "alpha", "tau", "iota", "nu", "iota_tonos", "nu", "eta", " ", "0", ",", "9">>, <<"c", "r", "p", ":", " ", "5">>,
     <<"LAMDA", "epsilon", "upsilon", "kappa", "alpha_tonos", " ", "7", ",", "5">>}

KwKeywords ==
    {<<"C", "R">>, <<"c", "r">>, <<"C", "R", "P">>, <<>>, <<" ">>, <<"C", " ", "P">>, <<" ", "C", "r", " ">>, <<"F", "E">>, <<"V", "I", "T", " ", "D">>, <<"LAMDA", "epsilon", "upsilon", "kappa", "alpha_tonos">>}

InitKw ==
    /\ pc = "call"
    /\ arg \in {[fn |-> "keyword_hit", line |-> l, kw |-> k] :
                    l \in Strs(KwAlphabet, MaxStrLen) \cup KwExamples, k \in KwKeywords}
    /\ ret = NoRet
    /\ RunIdle

CallKeywordHit ==
    /\ pc = "call"
    /\ arg.fn = "keyword_hit"
    /\ ret' = keyword_hit(upper(arg.line), arg.kw)
    /\ pc' = "return"
    /\ UNCHANGED <<arg, runVars>>

SpecKw == InitKw /\ [][CallKeywordHit]_vars

\* The letters of the model's characters: everything str.upper() maps or
\* maps to, and the two classes of capitals
Letters ==
    LatinUpper \cup GreekUpper \cup DOMAIN UpperTable
        \cup {UpperTable[c] : c \in DOMAIN UpperTable}

\* The keyword occurs at offset p of the line, whatever the case, and the
\* characters next to it, if any, are outside the set
OccursBetween(line, k, p, inside) ==
    /\ \A j \in 1..Len(k) : UpperChar(line[p + j]) = k[j]
    /\ (p = 0 \/ UpperChar(line[p]) \notin inside)
    /\ (p + Len(k) = Len(line) \/ UpperChar(line[p + Len(k) + 1]) \notin inside)

KeywordHitIs(inside) ==
    (pc = "return" /\ arg.fn = "keyword_hit") =>
        LET k == strip(upper(arg.kw))
        IN  /\ k = <<>> => ret = FALSE
            /\ (k # <<>> /\ " " \in SeqToSet(k)) => ret = Contains(upper(arg.line), k)
            /\ (k # <<>> /\ " " \notin SeqToSet(k)) =>
                  ret = \E p \in 0..(Len(arg.line) - Len(k)) :
                            OccursBetween(arg.line, k, p, inside)

\* C8 as stated: a single-word keyword hits only where no letter or digit
\* is next to it; an empty keyword never hits; a keyword with a space hits
\* as a substring.
C8_KeywordHitLetterBoundary == KeywordHitIs(Letters \cup Digits)

\* C8, amended: the boundary is a character outside A-Z, 0-9 and the
\* unaccented Greek capitals (after upper-casing), or the line's end; so "CR"
\* does not hit inside "CRP" nor "FE" inside "FERRITIN", but a keyword next to
\* any other letter (an accented Greek capital) does hit.
C8_KeywordHitClassBoundary ==
    /\ KeywordHitIs(WordChars)
    /\ (pc = "return" /\ arg.line = <<"C", "R", "P", " ", "5">> /\ arg.kw = <<"C", "R">>) => ret = FALSE
    /\ (pc = "return" /\ arg.line = <<"F", "E", "R", "R", "I", "T", "I", "N", " ", "3", "0">> /\ arg.kw = <<"F", "E">>) => ret = FALSE
    /\ (pc = "return" /\ arg.line = <<"F", "e", " ", "8", "0">> /\ arg.kw = <<"F", "E">>) => ret = TRUE

C8_Witness ==
    /\ pc = "return" /\ arg.fn = "keyword_hit"
    /\ arg.line = <<"C", "R", "P", " ", "5">> /\ arg.kw = <<"C", "R">> /\ ret = FALSE

(***************************************************************************)
(* pick_best_value on short candidate lists                                *)
(***************************************************************************)
\* Longest candidate list
MaxCands == 3

\* 0.05, 4.5, 12.5, 150, 150.5, 2500 and a None
PickPool == {None, Num(5, 2), Num(45, 1), Num(125, 1), Int2Num(150), Num(1505, 1), Int2Num(2500)}

PickMetrics ==
    {<<"W", "B", "C", " ", "(", "LAMDA", "epsilon", "upsilon", "kappa", "alpha_tonos", ")">>, <<"R", "B", "C", " ", "(", "EPSILON", "rho", "upsilon", "theta", "rho", "alpha_tonos", ")">>, <<"H", "G", "B", " ", "(", "ALPHA", "iota", "mu", "omicron", "sigma", "phi", "alpha", "iota", "rho", "iota_tonos", "nu", "eta", ")">>, <<"H", "C", "T", " ", "(", "ALPHA", "iota", "mu", "alpha", "tau", "omicron", "kappa", "rho", "iota_tonos", "tau", "eta", "final_sigma", ")">>,
     <<"P", "L", "T", " ", "(", "ALPHA", "iota", "mu", "omicron", "pi", "epsilon", "tau", "alpha_tonos", "lamda", "iota", "alpha", ")">>, <<"M", "C", "V">>, <<"P", "C", "T">>, <<"C", "R", "P">>, <<"B", "1", "2">>, <<"KAPPA", "rho", "epsilon", "alpha", "tau", "iota", "nu", "iota_tonos", "nu", "eta">>}

InitPick ==
    /\ pc = "call"
    /\ arg \in {[fn |-> "pick_best_value", metric_name |-> n, values |-> v] :
                    n \in PickMetrics, v \in Strs(PickPool, MaxCands)}
    /\ ret = NoRet
    /\ RunIdle

CallPickBestValue ==
    /\ pc = "call"
    /\ arg.fn = "pick_best_value"
    /\ ret' = pick_best_value(arg.metric_name, arg.values)
    /\ pc' = "return"
    /\ UNCHANGED <<arg, runVars>>

SpecPick == InitPick /\ [][CallPickBestValue]_vars

NoRange == <<>>

\* The five ranges the claim lists, by metric
ListedRange(metric_name) ==
    CASE metric_name = <<"W", "B", "C", " ", "(", "LAMDA", "epsilon", "upsilon", "kappa", "alpha_tonos", ")">> -> <<Num(1, 1), Int2Num(30)>>
      [] metric_name = <<"R", "B", "C", " ", "(", "EPSILON", "rho", "upsilon", "theta", "rho", "alpha_tonos", ")">> -> <<Int2Num(1), Int2Num(8)>>
      [] metric_name = <<"H", "G", "B", " ", "(", "ALPHA", "iota", "mu", "omicron", "sigma", "phi", "alpha", "iota", "rho", "iota_tonos", "nu", "eta", ")">> -> <<Int2Num(5), Int2Num(25)>>
      [] metric_name = <<"H", "C", "T", " ", "(", "ALPHA", "iota", "mu", "alpha", "tau", "omicron", "kappa", "rho", "iota_tonos", "tau", "eta", "final_sigma", ")">> -> <<Int2Num(10), Int2Num(70)>>
      [] metric_name = <<"P", "L", "T", " ", "(", "ALPHA", "iota", "mu", "omicron", "pi", "epsilon", "tau", "alpha_tonos", "lamda", "iota", "alpha", ")">> -> <<Int2Num(10), Int2Num(2000)>>
      [] OTHER -> NoRange

\* The range of the red-cell and platelet indices (lines 243-246)
RangeWithIndices(metric_name) ==
    IF metric_name \in IndexMetrics THEN <<Num(1, 3), Int2Num(1000)>>
    ELSE ListedRange(metric_name)

\* The candidate the claim describes: the first one inside the range (for
\* PLT the first integer-valued one inside it, if any), None when none is
\* inside; without a range, the first candidate.
ExpectedPick(metric_name, values, range) ==
    LET given  == {n \in 1..Len(values) : values[n].ok}
        inside == IF range = NoRange THEN given
                  ELSE {n \in given : Leq(range[1], values[n]) /\ Leq(values[n], range[2])}
        whole  == {n \in inside : values[n].e = 0}
        prefer == IF metric_name = <<"P", "L", "T", " ", "(", "ALPHA", "iota", "mu", "omicron", "pi", "epsilon", "tau", "alpha_tonos", "lamda", "iota", "alpha", ")">> /\ whole # {} THEN whole ELSE inside
    IN  IF prefer = {} THEN None
        ELSE values[CHOOSE n \in prefer : \A j \in prefer : n <= j]

\* C4 as stated: the five listed metrics pick inside their range, every
\* other metric gets its first candidate.
C4_PickBestValueListedRanges ==
    (pc = "return" /\ arg.fn = "pick_best_value") =>
        ret = ExpectedPick(arg.metric_name, arg.values, ListedRange(arg.metric_name))

\* C4, amended: as stated for the five listed metrics; MCV, MCH, MCHC, RDW,
\* MPV, PCT and PDW have a range too, [0.001, 1000], and get their first
\* candidate inside it (None when there is none); only the remaining
\* metrics get their first candidate whatever it is.
C4_PickBestValueRanges ==
    (pc = "return" /\ arg.fn = "pick_best_value") =>
        /\ ret = ExpectedPick(arg.metric_name, arg.values, RangeWithIndices(arg.metric_name))
        /\ (ret.ok /\ RangeWithIndices(arg.metric_name) # NoRange) =>
              /\ Leq(RangeWithIndices(arg.metric_name)[1], ret)
              /\ Leq(ret, RangeWithIndices(arg.metric_name)[2])

\* WBC offered 150 and then 12.5 takes 12.5
C4_Witness ==
    /\ pc = "return" /\ arg.fn = "pick_best_value"
    /\ arg.metric_name = <<"W", "B", "C", " ", "(", "LAMDA", "epsilon", "upsilon", "kappa", "alpha_tonos", ")">>
    /\ arg.values = <<Int2Num(150), Num(125, 1)>>
    /\ ret = Num(125, 1)

(***************************************************************************)
(* parse_google_text_deep on short reports: a first line, a run of filler  *)
(* lines, and a few closing lines                                          *)
(***************************************************************************)
\* Most filler lines between the first line and the closing lines
MaxGap == 7

\* Most closing lines
MaxTail == 2

HeadLines ==
    {<<"W", "B", "C">>, <<"W", "B", "C", " ", "6", "2", ",", "5", " ", "1", "0", ",", "2", "5">>, <<"H", "G", "B", " ", "1", "3", ".", "5">>, <<"C", "R", "P", " ", "2", ".", "0", "2", "4", ",", "5", " ", "3", ",", "1">>, <<"B", "1", "2", " ", "2", ".", "0", "2", "4", ",", "5">>, <<"R", "e", "f", ".", " ", "9">>}

TailLines ==
    {<<"1", "0", ",", "2", "5">>, <<"H", "G", "B", " ", " ", "1", "3", ".", "5", " ">>, <<"C", "R", "P", " ", "5">>, <<"W", "B", "C", " ", "7", ",", "5">>, <<"2", ".", "0", "2", "4", ",", "5", " ", "B", "1", "2">>}

\* The j-th filler line: a number of its own ("0,j"), or, in a report
\* without numbers there, a unit on the odd lines and a blank line on the
\* even ones
Filler(style, j) ==
    IF style = "numbers" THEN <<"0", ",", CHOOSE c \in Digits : DigitVal(c) = j % 10>>
    ELSE IF j % 2 = 1 THEN <<"m", "g", "/", "d", "L">> ELSE <<" ", " ">>

ParseTexts ==
    {<<h>> \o [j \in 1..g |-> Filler(style, j)] \o t :
        h \in HeadLines, g \in 0..MaxGap, style \in {"numbers", "units"},
        t \in Strs(TailLines, MaxTail)}

ParseSelections ==
    {<<<<"W", "B", "C", " ", "(", "LAMDA", "epsilon", "upsilon", "kappa", "alpha_tonos", ")">>, <<"H", "G", "B", " ", "(", "ALPHA", "iota", "mu", "omicron", "sigma", "phi", "alpha", "iota", "rho", "iota_tonos", "nu", "eta", ")">>>>, <<<<"C", "R", "P">>, <<"B", "1", "2">>>>, <<<<"W", "B", "C", " ", "(", "LAMDA", "epsilon", "upsilon", "kappa", "alpha_tonos", ")">>>>}

InitParse ==
    /\ pc = "call"
    /\ arg \in {[fn |-> "parse_google_text_deep", full_text |-> t,
                 selected_metrics |-> active_metrics_map(s)] :
                    t \in ParseTexts, s \in ParseSelections}
    /\ ret = NoRet
    /\ RunIdle

CallParseGoogleTextDeep ==
    /\ pc = "call"
    /\ arg.fn = "parse_google_text_deep"
    /\ ret' = parse_google_text_deep(arg.full_text, arg.selected_metrics)
    /\ pc' = "return"
    /\ UNCHANGED <<arg, runVars>>

SpecParse == InitParse /\ [][CallParseGoogleTextDeep]_vars

ParseReturned == pc = "return" /\ arg.fn = "parse_google_text_deep"

\* The numbers of lines from..to, in line order
RECURSIVE NumbersOf(_, _, _)
NumbersOf(lines, from, to) ==
    IF from > to THEN <<>>
    ELSE find_all_numbers(lines[from]) \o NumbersOf(lines, from + 1, to)

\* A keyword of a selected metric other than item, not shared with item
OtherKeywords(item, selected_metrics) ==
    UNION {{strip(upper(o.keywords[j])) : j \in 1..Len(o.keywords)} :
              o \in {it \in SeqToSet(selected_metrics) : it.name # item.name}}
    \ ({strip(upper(item.keywords[j])) : j \in 1..Len(item.keywords)} \cup {<<>>})

\* The lines after line at that hold a keyword of another selected metric
StopLines(lines, at, item, selected_metrics) ==
    {j \in (at + 1)..Len(lines) :
        \E k \in OtherKeywords(item, selected_metrics) : keyword_hit(upper(lines[j]), k)}

MinOf(S) == CHOOSE x \in S : \A y \in S : x <= y

\* C3: the result is sparse: its keys are selected metric names, a metric is
\* a key only if a value was found for it, no key maps to None, and a metric
\* whose keywords hit no line or whose candidates yield no value is absent.
C3_ResultsSparse ==
    ParseReturned =>
        LET lines == TextLines(arg.full_text)
            sel   == arg.selected_metrics
        IN  /\ DOMAIN ret.results \subseteq {sel[k].name : k \in 1..Len(sel)}
            /\ \A n \in DOMAIN ret.results : ret.results[n].ok
            /\ \A k \in 1..Len(sel) :
                  LET row == ret.debug_rows[k]
                      hit == \E n \in 1..Len(lines) : \E j \in 1..Len(sel[k].keywords) :
                                keyword_hit(upper(lines[n]), sel[k].keywords[j])
                  IN  /\ row.Metric = sel[k].name
                      /\ sel[k].name \in DOMAIN ret.results <=> row.Picked.ok
                      /\ row.Picked.ok => ret.results[sel[k].name] = row.Picked
                      /\ ~hit => sel[k].name \notin DOMAIN ret.results
                      /\ ~pick_best_value(sel[k].name, row.Candidates).ok =>
                            sel[k].name \notin DOMAIN ret.results

\* One selected metric is found, one hits a line without acceptable value,
\* so is absent
C3_Witness ==
    /\ ParseReturned
    /\ \E k, j \in 1..Len(arg.selected_metrics) :
          /\ ret.debug_rows[k].Picked.ok
          /\ arg.selected_metrics[k].name \in DOMAIN ret.results
          /\ ret.debug_rows[j].at > 0
          /\ ret.debug_rows[j].Candidates # <<>>
          /\ ~ret.debug_rows[j].Picked.ok
          /\ arg.selected_metrics[j].name \notin DOMAIN ret.results

\* C5: the candidates of a metric matched on line at come from line at and
\* the lines after it, in order, up to some line before the first following
\* line that holds a keyword of another known (selected) metric: no number of
\* that line or of a later line is a candidate.
C5_StopAtOtherKeyword ==
    ParseReturned =>
        LET lines == TextLines(arg.full_text)
            sel   == arg.selected_metrics
        IN  \A k \in 1..Len(sel) :
                LET row   == ret.debug_rows[k]
                    stops == StopLines(lines, row.at, sel[k], sel)
                    limit == IF stops = {} THEN Len(lines) ELSE MinOf(stops) - 1
                IN  row.at > 0 =>
                        \E to \in row.at..limit :
                            row.Candidates = NumbersOf(lines, row.at, to)

\* A stop line with a number of its own right inside the window
C5_Witness ==
    /\ ParseReturned
    /\ LET lines == TextLines(arg.full_text)
           sel   == arg.selected_metrics
       IN  \E k \in 1..Len(sel) :
               LET row   == ret.debug_rows[k]
                   stops == StopLines(lines, row.at, sel[k], sel)
               IN  /\ row.at > 0
                   /\ stops # {}
                   /\ MinOf(stops) \in (row.at + 2)..(row.at + MaxOffset)
                   /\ find_all_numbers(lines[MinOf(stops)]) # <<>>
                   /\ row.Candidates = NumbersOf(lines, row.at, MinOf(stops) - 1)
                   /\ row.Candidates # NumbersOf(lines, row.at, MinOf(stops))

\* C9: the candidates come from the matched line and at most the 6 non-empty
\* lines after it, in line order, matched line first; the window is cut only
\* by the end of the text or by a stop line.
C9_WindowOfSix ==
    ParseReturned =>
        LET lines == TextLines(arg.full_text)
            sel   == arg.selected_metrics
        IN  \A k \in 1..Len(sel) :
                LET row    == ret.debug_rows[k]
                    stops  == StopLines(lines, row.at, sel[k], sel)
                    window == IF row.at + 6 <= Len(lines) THEN row.at + 6 ELSE Len(lines)
                IN  row.at > 0 =>
                        /\ \E to \in row.at..window :
                              row.Candidates = NumbersOf(lines, row.at, to)
                        /\ (stops \cap (row.at..window) = {}) =>
                              row.Candidates = NumbersOf(lines, row.at, window)
                        /\ \A n \in 1..Len(lines) : lines[n] # <<>>

\* Seven numbered lines follow the matched line, none a stop line: the
\* seventh's number is no candidate
C9_Witness ==
    /\ ParseReturned
    /\ LET lines == TextLines(arg.full_text)
           sel   == arg.selected_metrics
       IN  \E k \in 1..Len(sel) :
               LET row == ret.debug_rows[k]
               IN  /\ row.at > 0
                   /\ row.at + 7 <= Len(lines)
                   /\ StopLines(lines, row.at, sel[k], sel) \cap (row.at..(row.at + 7)) = {}
                   /\ find_all_numbers(lines[row.at + 7]) # <<>>
                   /\ \A j \in 0..6 : find_all_numbers(lines[row.at + j]) # <<>>
                   /\ row.Candidates = NumbersOf(lines, row.at, row.at + 6)
                   /\ row.Candidates # NumbersOf(lines, row.at, row.at + 7)

YearLike(v) == v.ok /\ Lt(Int2Num(1990), v) /\ Lt(v, Int2Num(2030))

\* C10: no metric whose name lacks "B12" gets a value between 1990 and 2030:
\* a year-like pick is dropped and the metric left absent, no other
\* candidate taking its place; a B12 metric keeps such a value.
C10_YearsBlocked ==
    ParseReturned =>
        LET sel == arg.selected_metrics
        IN  \A k \in 1..Len(sel) :
                LET name   == sel[k].name
                    picked == pick_best_value(name, ret.debug_rows[k].Candidates)
                IN  IF Contains(name, <<"B", "1", "2">>)
                    THEN (ret.debug_rows[k].at > 0 /\ picked.ok) =>
                            (name \in DOMAIN ret.results /\ ret.results[name] = picked)
                    ELSE /\ name \in DOMAIN ret.results => ~YearLike(ret.results[name])
                         /\ YearLike(picked) => name \notin DOMAIN ret.results

\* CRP picks 2024.5 ahead of 3.1 and is left absent; B12 keeps its 2024.5
C10_Witness ==
    /\ ParseReturned
    /\ Len(arg.selected_metrics) = 2
    /\ arg.selected_metrics[1].name = <<"C", "R", "P">>
    /\ ret.debug_rows[1].Candidates = <<Num(20245, 1), Num(31, 1)>>
    /\ <<"C", "R", "P">> \notin DOMAIN ret.results
    /\ <<"B", "1", "2">> \in DOMAIN ret.results
    /\ ret.results[<<"B", "1", "2">>] = Num(20245, 1)

\* The lines that hit a keyword of the metric
HitLines(lines, item) ==
    {n \in 1..Len(lines) : \E j \in 1..Len(item.keywords) :
        keyword_hit(upper(lines[n]), item.keywords[j])}

\* C11: for each metric only the first line that hits one of its keywords is
\* examined: the matched line is that line, the candidates start with its
\* numbers, and the metric is in the result exactly when the pick from these
\* candidates is acceptable; when it is not, the metric is absent whatever
\* the later lines hold.
C11_FirstHitOnly ==
    ParseReturned =>
        LET lines == TextLines(arg.full_text)
            sel   == arg.selected_metrics
        IN  \A k \in 1..Len(sel) :
                LET row   == ret.debug_rows[k]
                    hits  == HitLines(lines, sel[k])
                    first == find_all_numbers(lines[MinOf(hits)])
                    val   == pick_best_value(sel[k].name, row.Candidates)
                IN  IF hits = {}
                    THEN row.at = 0 /\ sel[k].name \notin DOMAIN ret.results
                    ELSE /\ row.at = MinOf(hits)
                         /\ row.MatchedLine = lines[MinOf(hits)]
                         /\ Len(row.Candidates) >= Len(first)
                         /\ SubSeq(row.Candidates, 1, Len(first)) = first
                         /\ sel[k].name \in DOMAIN ret.results =>
                               ret.results[sel[k].name] = val
                         /\ (~val.ok \/ (YearLike(val) /\ ~Contains(sel[k].name, <<"B", "1", "2">>))) =>
                               sel[k].name \notin DOMAIN ret.results

\* The first hit of a metric yields no acceptable value and a later line
\* holds the keyword with a valid value on it: the metric is absent
C11_Witness ==
    /\ ParseReturned
    /\ LET lines == TextLines(arg.full_text)
           sel   == arg.selected_metrics
       IN  \E k \in 1..Len(sel) :
               LET row == ret.debug_rows[k]
               IN  /\ row.at > 0
                   /\ ~row.Picked.ok
                   /\ sel[k].name \notin DOMAIN ret.results
                   /\ \E n \in (row.at + 1)..Len(lines) :
                         LET later == pick_best_value(sel[k].name, find_all_numbers(lines[n]))
                         IN  /\ n \in HitLines(lines, sel[k])
                             /\ later.ok /\ ~YearLike(later)

(***************************************************************************)
(* The START run (lines 584-643)                                           *)
(***************************************************************************)
\* Most files of one upload
MaxFiles == 2

\* Most START runs of a session
MaxRuns == 2

File(name, full_text) == [name |-> name, full_text |-> full_text]

\* The uploads: a report with its date and two metrics, a report in which no
\* selected metric is found, named by its date, and an undated scan.
\* full_text is what OCR reads in the file.
FilePool ==
    {File(<<"l", "a", "b", "_", "a", ".", "p", "d", "f">>, <<<<"D", "a", "t", "e", ":", " ", "1", "2", "/", "0", "5", "/", "2", "0", "2", "4">>, <<"W", "B", "C", " ", "7", ",", "5">>, <<"H", "G", "B", " ", "1", "3", ".", "5", " ", "g", "/", "d", "L">>>>),
     File(<<"2", "4", "0", "3", "0", "1", ".", "p", "d", "f">>, <<<<"R", "e", "f", ".", " ", "9">>>>),
     File(<<"s", "c", "a", "n", ".", "p", "d", "f">>, <<<<"P", "L", "T", " ", "2", "5", "0">>>>)}

Uploads == Strs(FilePool, MaxFiles) \ {<<>>}

Modes == {"Strict metrics (DB)", "Auto extract (all results)"}

Init ==
    /\ pc = "ready"
    /\ arg = <<>>
    /\ ret = NoRet
    /\ RunIdle

\* lines 584-593: START pressed with files uploaded and a Vision client
StartRun ==
    /\ pc = "ready"
    /\ runs < MaxRuns
    /\ \E files \in Uploads, m \in Modes, dbg \in BOOLEAN :
          /\ uploaded_files' = files
          /\ mode' = m
          /\ show_debug' = dbg
    /\ i' = 0
    /\ all_data' = <<>>
    /\ auto_data' = <<>>
    /\ debug_tables' = <<>>
    /\ errors' = <<>>
    /\ attempted' = <<>>
    /\ bar' = 0
    /\ runs' = runs + 1
    /\ pc' = "loop"
    /\ UNCHANGED <<arg, ret, sessionVars>>

\* lines 585-587: no Vision client: st.stop() ends the script before the loop
StartAuthError ==
    /\ pc = "ready"
    /\ runs < MaxRuns
    /\ runs' = runs + 1
    /\ UNCHANGED <<pc, arg, ret, sessionVars, uploaded_files, mode, show_debug, i,
                   all_data, auto_data, debug_tables, errors, attempted, bar>>

\* A loop that gives up at the first file that raises
ProcessFileAbortOnError ==
    /\ pc = "loop"
    /\ i < Len(uploaded_files)
    /\ LET file == uploaded_files[i + 1]
       IN  /\ attempted' = Append(attempted, i + 1)
           /\ \E raised \in BOOLEAN :
                 IF raised
                 THEN /\ errors' = Append(errors, file.name)
                      /\ i' = Len(uploaded_files)
                      /\ UNCHANGED <<all_data, auto_data, debug_tables>>
                 ELSE /\ i' = i + 1
                      /\ all_data' = IF mode = "Strict metrics (DB)"
                                     THEN append(all_data, StrictRow(file, safe_defaults))
                                     ELSE all_data
                      /\ auto_data' = IF mode = "Strict metrics (DB)" THEN auto_data
                                      ELSE Append(auto_data, AutoFrame(file))
                      /\ debug_tables' = IF mode = "Strict metrics (DB)" /\ show_debug
                                         THEN Append(debug_tables, DebugTable(file, safe_defaults))
                                         ELSE debug_tables
                      /\ UNCHANGED errors
    /\ bar' = i'
    /\ UNCHANGED <<pc, arg, ret, sessionVars, uploaded_files, mode, show_debug, runs>>

\* lines 595-622: one pass of the loop.  Reading or OCR-ing the file may
\* raise (lines 597-598); the except clause reports it and the loop goes on.
ProcessFile ==
    /\ pc = "loop"
    /\ i < Len(uploaded_files)
    /\ LET file == uploaded_files[i + 1]
       IN  /\ attempted' = Append(attempted, i + 1)
           /\ \E raised \in BOOLEAN :
                 IF raised
                 THEN /\ errors' = Append(errors, file.name)
                      /\ UNCHANGED <<all_data, auto_data, debug_tables>>
                 ELSE /\ all_data' = IF mode = "Strict metrics (DB)"
                                     THEN append(all_data, StrictRow(file, safe_defaults))
                                     ELSE all_data
                      /\ auto_data' = IF mode = "Strict metrics (DB)" THEN auto_data
                                      ELSE Append(auto_data, AutoFrame(file))
                      /\ debug_tables' = IF mode = "Strict metrics (DB)" /\ show_debug
                                         THEN Append(debug_tables, DebugTable(file, safe_defaults))
                                         ELSE debug_tables
                      /\ UNCHANGED errors
    /\ i' = i + 1
    /\ bar' = i + 1
    /\ UNCHANGED <<pc, arg, ret, sessionVars, uploaded_files, mode, show_debug, runs>>

\* A Strict store that leaves the Auto table in place
StoreStrictKeepAuto ==
    /\ pc = "loop"
    /\ i = Len(uploaded_files)
    /\ mode = "Strict metrics (DB)"
    /\ IF all_data # <<>>
       THEN /\ df_master' = DataFrame(sort_values(all_data))
            /\ UNCHANGED auto_master
       ELSE UNCHANGED <<df_master, auto_master>>
    /\ debug_master' = IF show_debug /\ debug_tables # <<>>
                     THEN DataFrame(debug_tables) ELSE NoTable
    /\ pc' = "ready"
    /\ UNCHANGED <<arg, ret, uploaded_files, mode, show_debug, i, all_data, auto_data,
                   debug_tables, errors, attempted, bar, runs>>

\* lines 624-634: the loop is over, Strict mode
StoreStrict ==
    /\ pc = "loop"
    /\ i = Len(uploaded_files)
    /\ mode = "Strict metrics (DB)"
    /\ IF all_data # <<>>
       THEN /\ df_master' = DataFrame(sort_values(all_data))
            /\ auto_master' = NoTable
       ELSE UNCHANGED <<df_master, auto_master>>
    /\ debug_master' = IF show_debug /\ debug_tables # <<>>
                     THEN DataFrame(debug_tables) ELSE NoTable
    /\ pc' = "ready"
    /\ UNCHANGED <<arg, ret, uploaded_files, mode, show_debug, i, all_data, auto_data,
                   debug_tables, errors, attempted, bar, runs>>

\* lines 636-643: the loop is over, Auto mode
StoreAuto ==
    /\ pc = "loop"
    /\ i = Len(uploaded_files)
    /\ mode = "Auto extract (all results)"
    /\ IF auto_data # <<>>
       THEN /\ auto_master' = DataFrame(sort_values(auto_data))
            /\ df_master' = NoTable
            /\ debug_master' = NoTable
       ELSE UNCHANGED <<df_master, auto_master, debug_master>>
    /\ pc' = "ready"
    /\ UNCHANGED <<arg, ret, uploaded_files, mode, show_debug, i, all_data, auto_data,
                   debug_tables, errors, attempted, bar, runs>>

Next == StartRun \/ StartAuthError \/ ProcessFile \/ StoreStrict \/ StoreAuto

Spec == Init /\ [][Next]_vars

\* The names of the files at the indices, in index order
RECURSIVE NamesAt(_, _)
NamesAt(files, indices) ==
    IF indices = {} THEN <<>>
    ELSE LET k == CHOOSE x \in indices : \A y \in indices : x <= y
         IN  <<files[k].name>> \o NamesAt(files, indices \ {k})

RECURSIVE RowsAt(_, _)
RowsAt(files, indices) ==
    IF indices = {} THEN <<>>
    ELSE LET k == CHOOSE x \in indices : \A y \in indices : x <= y
         IN  <<StrictRow(files[k], safe_defaults)>> \o RowsAt(files, indices \ {k})

\* The sets of files that may have raised so far, going by the reports
Failed == {F \in SUBSET (1..i) : NamesAt(uploaded_files, F) = errors}

\* C1: in a run every file is attempted once, in upload order; a file that
\* raises is reported and the files after it are still processed: each file
\* done is either reported or has its row, and the run is over (results
\* stored) only with every file of the list attempted.
C1_EveryFileAttemptedOnce ==
    (runs > 0 /\ uploaded_files # <<>>) =>
        /\ i <= Len(uploaded_files)
        /\ attempted = [k \in 1..i |-> k]
        /\ bar = i
        /\ Failed # {}
        /\ Len(errors) + Len(all_data) + Len(auto_data) = i
        /\ pc = "ready" => attempted = [k \in 1..Len(uploaded_files) |-> k]

\* A run is over in which the first file raised and the second has its row
C1_Witness ==
    /\ pc = "ready" /\ runs > 0
    /\ Len(uploaded_files) = 2
    /\ errors = <<uploaded_files[1].name>>
    /\ attempted = <<1, 2>>
    /\ all_data = <<StrictRow(uploaded_files[2], safe_defaults)>>

\* b is a of rearranged
IsPermutation(a, b) ==
    /\ Len(a) = Len(b)
    /\ \A x \in SeqToSet(a) \cup SeqToSet(b) :
          Cardinality({k \in 1..Len(a) : a[k] = x}) = Cardinality({k \in 1..Len(b) : b[k] = x})

\* A Strict run is over and has stored its table
StrictStored ==
    pc = "ready" /\ runs > 0 /\ mode = "Strict metrics (DB)" /\ all_data # <<>>

\* C2 as stated: after a Strict run that stores a table, df_master holds
\* exactly one row per uploaded file of the run, with the file's date, name
\* and extracted metrics.
C2_OneRowPerUploadedFile ==
    StrictStored =>
        /\ ~df_master.is_none
        /\ IsPermutation(df_master.rows, RowsAt(uploaded_files, 1..Len(uploaded_files)))

\* C2, amended: df_master holds exactly one row per uploaded file of the run
\* whose processing did not raise, with the file's date, name and extracted
\* metrics (a file without any metric found still has its row); a file that
\* raised has no row.
C2_OneRowPerProcessedFile ==
    StrictStored =>
        /\ ~df_master.is_none
        /\ \E F \in Failed :
              IsPermutation(df_master.rows, RowsAt(uploaded_files, (1..Len(uploaded_files)) \ F))

\* Two files, none raised; no metric was found in the second, which has its
\* row all the same
C2_Witness ==
    /\ StrictStored
    /\ Len(uploaded_files) = 2 /\ errors = <<>>
    /\ Len(df_master.rows) = 2
    /\ \E k \in 1..2 : DOMAIN df_master.rows[k].metrics = {}
    /\ \E k \in 1..2 : DOMAIN df_master.rows[k].metrics # {}

\* The last run is over and has stored its Auto table
AutoStored ==
    pc = "ready" /\ runs > 0 /\ mode = "Auto extract (all results)" /\ auto_data # <<>>

\* C12: at any point of a session at most one of df_master and auto_master
\* is set: once a run has stored its Strict table the Auto table is None,
\* and once a run has stored its Auto table the Strict table is None.
C12_AtMostOneTable ==
    /\ df_master.is_none \/ auto_master.is_none
    /\ StrictStored => (~df_master.is_none /\ auto_master.is_none)
    /\ AutoStored => (~auto_master.is_none /\ df_master.is_none)

\* An earlier run has stored its Auto table, and a Strict run, one file
\* failed and one done, is at the end of its loop with a row to store
C12_Witness ==
    /\ pc = "loop" /\ runs = 2
    /\ mode = "Strict metrics (DB)"
    /\ i = Len(uploaded_files)
    /\ Len(errors) = 1 /\ Len(all_data) = 1
    /\ ~auto_master.is_none
    /\ df_master.is_none

====
